---- MODULE Spec2Model ----
(***************************************************************************)
(* Model of the quiz server's session store (TestStore in main.go): the    *)
(* two maps testMap / expiresAt guarded by one RWMutex, the configured     *)
(* ttl, the clock read by time.Now(), and the background CleanupExpired    *)
(* task.  Put and Get read the clock inside their critical section, so     *)
(* each is one atomic step; CleanupExpired reads the clock BEFORE taking   *)
(* the lock, so it is two steps.                                           *)
(*                                                                         *)
(* Specifications: Spec drives the store through Put / Get /               *)
(* CleanupExpired with any ttl; SpecHTTP is the server of main (startHandler*)
(* and submitHandler behind withCORS, the store with its 30 minute ttl);   *)
(* SpecGrade applies submitHandler to every small answer list; SpecID runs *)
(* randomTestID; SpecSweepFair is the server's store with the ticker       *)
(* scheduled for ever; SpecLock runs Put / Get / CleanupExpired line by    *)
(* line in concurrent goroutines under the RWMutex, and SpecLockFair adds  *)
(* fair scheduling to it.                                                  *)
(***************************************************************************)
EXTENDS Integers, Sequences, FiniteSets, TLC

\* ---------------------------------------------------------------- bounds
\* The clock runs over 0..MaxTime (one unit = one tick of time.Now()).
MaxTime == 3
\* Session identifiers are the opaque tokens 1..MaxTestIDs.
MaxTestIDs == 2
\* The store is constructed with a ttl in -1..MaxTTL.
MaxTTL == 1

\* The goroutines of request handlers that call the store at the same time.
MaxGoroutines == 2

TestIDs == 1..MaxTestIDs
Times == 0..MaxTime
TTLs == (-1)..MaxTTL

\* The goroutine of main's ticker loop, and those of the request handlers.
Sweeper == 0
Handlers == 1..MaxGoroutines
Goroutines == {Sweeper} \cup Handlers

\* ------------------------------------------------------------ questions
\* A Question keeps its ID and the index of the correct option; the prompt
\* and the option strings are carried along unchanged and are left out.
baseQuestions ==
    << [ID |-> 1, Answer |-> 0], [ID |-> 2, Answer |-> 1], [ID |-> 3, Answer |-> 0] >>

\* The question sets a caller may hand to Put: the bank, and a one-question set.
QuestionSets == { baseQuestions, << [ID |-> 1, Answer |-> 0] >> }

\* The nil slice Get returns on a miss.
NilQuestions == << >>

\* "no value" in the observation variables.
None == -1

VARIABLES
    testMap,    \* s.testMap   : test_id -> question set (a function on a subset of TestIDs)
    expiresAt,  \* s.expiresAt : test_id -> expiration time
    ttl,        \* s.ttl
    now,        \* the value time.Now() returns
    cleanupPc,  \* where the CleanupExpired call is: "idle" or "lock"
    cleanupNow, \* CleanupExpired's local variable now
    last,       \* the store call that returned last at the current instant (NoCall after
                \* a clock tick), its arguments and what it returned
    putAt,      \* per test_id, the time of the most recent Put (None: never Put)
    putQs,      \* per test_id, the question set of the most recent Put
    req,        \* the HTTP request handled last, or the one about to be handled
                \* while resp = NoResp (NoReq: none yet)
    resp,       \* the HTTP response written to req (NoResp: none yet)
    again,      \* whether req is the very /submit that was graded (200) before it
    idB,        \* randomTestID's byte slice b
    idI,        \* randomTestID's loop index i (the number of bytes of b filled)
    idOut,      \* the string randomTestID returned (empty: it has not returned)
    mu,         \* s.mu : the goroutine on the writer side and those holding a read lock
    call,       \* per goroutine, the store call it is in and the line it has reached
    committed   \* the two maps as the calls that have returned left them

storeVars == << testMap, expiresAt, ttl, now, cleanupPc, cleanupNow, last, putAt, putQs >>
httpVars == << req, resp, again >>
idVars == << idB, idI, idOut >>
lockVars == << mu, call, committed >>
vars == << testMap, expiresAt, ttl, now, cleanupPc, cleanupNow, last, putAt, putQs,
           req, resp, again, idB, idI, idOut, mu, call, committed >>

\* ------------------------------------------------------------- helpers
EmptyMap == [x \in {} |-> 0]

\* m[k] = v
MapSet(m, k, v) == [x \in DOMAIN m \cup {k} |-> IF x = k THEN v ELSE m[x]]

\* delete(m, k) for every k in ks
MapDelete(m, ks) == [x \in DOMAIN m \ ks |-> m[x]]

\* Bug variant of After: !t.Before(u), which is also true at the instant u itself.
AfterOrEqual(t, u) == t >= u

\* time.Time.After: t.After(u) is t > u, strictly
After(t, u) == t > u

NoCall ==
    [op |-> "none", id |-> None, qs |-> NilQuestions, t |-> None,
     ok |-> FALSE, ret |-> NilQuestions, pre |-> "none", rep |-> 0]

\* -------------------------------------------------------- HTTP messages
\* A request: path, method, whether the body decodes as JSON, and the decoded
\* fields test_id and answers of a /submit body (the user field is never read).
NoReq ==
    [path |-> "none", method |-> "none", bodyOK |-> FALSE,
     test_id |-> None, answers |-> << >>]

\* A response: status and the fields of the JSON body that the handler sets
\* (StartResponse, SubmitResponse, or the success/error map).
NoResp ==
    [status |-> 0, success |-> FALSE, error |-> "", test_id |-> None,
     test |-> << >>, score |-> 0, total |-> 0, results |-> << >>]

\* A goroutine that is in no store call.
IdleCall ==
    [op |-> "none", at |-> "idle", id |-> None, qs |-> NilQuestions,
     t |-> None, todo |-> {}]

\* ------------------------------------------------------ randomTestID data
\* const letters, one character per element
letters ==
    << "a", "b", "c", "d", "e", "f", "g", "h", "i", "j", "k", "l", "m",
       "n", "o", "p", "q", "r", "s", "t", "u", "v", "w", "x", "y", "z",
       "0", "1", "2", "3", "4", "5", "6", "7", "8", "9" >>

\* make([]byte, 10): the length of the random part
IDLength == 10

\* The byte make() fills a fresh slice with.
ZeroByte == "NUL"

\* ---------------------------------------------------------------- Init
\* randomTestID has not been called.
NoRandomTestID ==
    /\ idB = [i \in 1..IDLength |-> ZeroByte]
    /\ idI = 0
    /\ idOut = << >>

\* The zero RWMutex, no goroutine in a store call, two empty maps.
NoStoreCalls ==
    /\ mu = [w |-> None, r |-> {}]
    /\ call = [p \in Goroutines |-> IdleCall]
    /\ committed = [testMap |-> EmptyMap, expiresAt |-> EmptyMap]

NewTestStore(d) ==
    /\ testMap = EmptyMap
    /\ expiresAt = EmptyMap
    /\ ttl = d

Init ==
    /\ \E d \in TTLs : NewTestStore(d)
    /\ now = 0
    /\ cleanupPc = "idle"
    /\ cleanupNow = 0
    /\ last = NoCall
    /\ putAt = [id \in TestIDs |-> None]
    /\ putQs = [id \in TestIDs |-> NilQuestions]
    /\ req = NoReq
    /\ resp = NoResp
    /\ again = FALSE
    /\ NoRandomTestID
    /\ NoStoreCalls

\* Bug variant of GetResult: the expiration check is left out.
GetResultNoExpiry(tm, ea, testID, t) ==
    IF testID \notin DOMAIN tm
    THEN [qs |-> NilQuestions, ok |-> FALSE]
    ELSE [qs |-> tm[testID], ok |-> TRUE]

\* ----------------------------------------------------------------- Get
\* What Get(testID) returns when it runs at time t on the maps tm / ea.
GetResult(tm, ea, testID, t) ==
    IF testID \notin DOMAIN tm
    THEN [qs |-> NilQuestions, ok |-> FALSE]
    ELSE IF ttl > 0 /\ testID \in DOMAIN ea /\ After(t, ea[testID])
         THEN [qs |-> NilQuestions, ok |-> FALSE]
         ELSE [qs |-> tm[testID], ok |-> TRUE]

\* How the record of testID looks to a caller at time t.
RecordState(tm, ea, testID, t) ==
    IF testID \notin DOMAIN tm THEN "absent"
    ELSE IF GetResult(tm, ea, testID, t).ok THEN "live" ELSE "expired"

\* Bug variant of Get: a record found expired is deleted on the spot.
GetDeleteExpired(testID) ==
    LET r == GetResult(testMap, expiresAt, testID, now)
        dead == IF testID \in DOMAIN testMap /\ ~r.ok THEN {testID} ELSE {} IN
    /\ last' = [op |-> "Get", id |-> testID, qs |-> NilQuestions, t |-> now,
                ok |-> r.ok, ret |-> r.qs, pre |-> "none", rep |-> 0]
    /\ testMap' = MapDelete(testMap, dead)
    /\ expiresAt' = MapDelete(expiresAt, dead)
    /\ UNCHANGED << ttl, now, cleanupPc, cleanupNow, putAt, putQs >>

Get(testID) ==
    LET r == GetResult(testMap, expiresAt, testID, now) IN
    /\ last' = [op |-> "Get", id |-> testID, qs |-> NilQuestions, t |-> now,
                ok |-> r.ok, ret |-> r.qs, pre |-> "none", rep |-> 0]
    /\ UNCHANGED << testMap, expiresAt, ttl, now, cleanupPc, cleanupNow, putAt, putQs >>

\* ----------------------------------------------------------------- Put
\* Bug variant of PutTestMap: an existing record is kept, not overwritten.
PutTestMapKeepOld(tm, testID, qs) ==
    IF testID \in DOMAIN tm THEN tm ELSE MapSet(tm, testID, qs)

\* Bug variant of PutTestMap: the map is replaced by one holding this record only.
PutTestMapSingle(tm, testID, qs) == MapSet(EmptyMap, testID, qs)

\* s.testMap[testID] = qs
PutTestMap(tm, testID, qs) == MapSet(tm, testID, qs)

\* Bug variant of PutExpiresAt: every stored expiration is renewed, not one.
PutExpiresAtAll(ea, testID, t) ==
    IF ttl > 0 THEN [x \in DOMAIN ea \cup {testID} |-> t + ttl] ELSE ea

\* Bug variant of PutExpiresAt: the test is s.ttl >= 0.
PutExpiresAtNonNegative(ea, testID, t) ==
    IF ttl >= 0 THEN MapSet(ea, testID, t + ttl) ELSE ea

\* Bug variant of PutExpiresAt: an expiration already recorded is kept.
PutExpiresAtKeepOld(ea, testID, t) ==
    IF ttl > 0 /\ testID \notin DOMAIN ea THEN MapSet(ea, testID, t + ttl) ELSE ea

\* Bug variant of PutExpiresAt: the expiration is the time of the call, ttl not added.
PutExpiresAtNoTTL(ea, testID, t) ==
    IF ttl > 0 THEN MapSet(ea, testID, t) ELSE ea

\* Bug variant of PutExpiresAt: the test is s.ttl != 0.
PutExpiresAtNonZero(ea, testID, t) ==
    IF ttl # 0 THEN MapSet(ea, testID, t + ttl) ELSE ea

\* if s.ttl > 0 { s.expiresAt[testID] = time.Now().Add(s.ttl) }
PutExpiresAt(ea, testID, t) ==
    IF ttl > 0 THEN MapSet(ea, testID, t + ttl) ELSE ea

\* Whether Put(testID, qs) repeats the latest Put of testID, with the record
\* of that Put still in the store: 0 no, 1 at the same instant, 2 later.
PutRepeats(testID, qs) ==
    IF putAt[testID] = None \/ putQs[testID] # qs \/ testID \notin DOMAIN testMap
    THEN 0
    ELSE IF putAt[testID] = now THEN 1 ELSE 2

Put(testID, qs) ==
    /\ testMap' = PutTestMap(testMap, testID, qs)
    /\ expiresAt' = PutExpiresAt(expiresAt, testID, now)
    /\ last' = [op |-> "Put", id |-> testID, qs |-> qs, t |-> now,
                ok |-> FALSE, ret |-> NilQuestions,
                pre |-> RecordState(testMap, expiresAt, testID, now),
                rep |-> PutRepeats(testID, qs)]
    /\ putAt' = [putAt EXCEPT ![testID] = now]
    /\ putQs' = [putQs EXCEPT ![testID] = qs]
    /\ UNCHANGED << ttl, now, cleanupPc, cleanupNow >>

\* ------------------------------------------------------ CleanupExpired
\* Bug variant of ExpiredIDs: the ttl is added a second time before comparing.
ExpiredIDsLate(ea, t) == { id \in DOMAIN ea : After(t, ea[id] + ttl) }

\* Bug variant of ExpiredIDs: the test is !now.Before(exp), true at exp itself.
ExpiredIDsAtOrBefore(ea, t) == { id \in DOMAIN ea : t >= ea[id] }

\* Bug variant of ExpiredIDs: the comparison is reversed, exp.After(now).
ExpiredIDsReversed(ea, t) == { id \in DOMAIN ea : After(ea[id], t) }

\* The ids the loop over s.expiresAt deletes, with the captured time t.
ExpiredIDs(ea, t) == { id \in DOMAIN ea : After(t, ea[id]) }

\* Bug variant of CleanupBegin: the time is the one the program started at
\* (time.Now() taken once, outside the ticker loop).
CleanupBeginStale ==
    /\ cleanupPc = "idle"
    /\ IF ttl = 0
       THEN /\ last' = [NoCall EXCEPT !.op = "Sweep"]
            /\ UNCHANGED << cleanupPc, cleanupNow >>
       ELSE /\ cleanupPc' = "lock"
            /\ cleanupNow' = 0
            /\ UNCHANGED last
    /\ UNCHANGED << testMap, expiresAt, ttl, now, putAt, putQs >>

\* if s.ttl == 0 { return };  now := time.Now()
CleanupBegin ==
    /\ cleanupPc = "idle"
    /\ IF ttl = 0
       THEN /\ last' = [NoCall EXCEPT !.op = "Sweep"]
            /\ UNCHANGED << cleanupPc, cleanupNow >>
       ELSE /\ cleanupPc' = "lock"
            /\ cleanupNow' = now
            /\ UNCHANGED last
    /\ UNCHANGED << testMap, expiresAt, ttl, now, putAt, putQs >>

\* Bug variant of CleanupLocked: the loop deletes from s.testMap only and
\* leaves the expiration of a deleted record behind.
CleanupLockedTestMapOnly ==
    /\ cleanupPc = "lock"
    /\ testMap' = MapDelete(testMap, ExpiredIDs(expiresAt, cleanupNow))
    /\ cleanupPc' = "idle"
    /\ cleanupNow' = 0
    /\ last' = [NoCall EXCEPT !.op = "Sweep", !.t = cleanupNow]
    /\ UNCHANGED << expiresAt, ttl, now, putAt, putQs >>

\* Bug variant of CleanupLocked: the loop deletes from s.expiresAt only and
\* leaves the record of an expired session in s.testMap.
CleanupLockedExpiresAtOnly ==
    /\ cleanupPc = "lock"
    /\ expiresAt' = MapDelete(expiresAt, ExpiredIDs(expiresAt, cleanupNow))
    /\ cleanupPc' = "idle"
    /\ cleanupNow' = 0
    /\ last' = [NoCall EXCEPT !.op = "Sweep", !.t = cleanupNow]
    /\ UNCHANGED << testMap, ttl, now, putAt, putQs >>

\* s.mu.Lock(); the loop; s.mu.Unlock()
CleanupLocked ==
    /\ cleanupPc = "lock"
    /\ LET dead == ExpiredIDs(expiresAt, cleanupNow) IN
       /\ testMap' = MapDelete(testMap, dead)
       /\ expiresAt' = MapDelete(expiresAt, dead)
    /\ cleanupPc' = "idle"
    /\ cleanupNow' = 0
    /\ last' = [NoCall EXCEPT !.op = "Sweep", !.t = cleanupNow]
    /\ UNCHANGED << ttl, now, putAt, putQs >>

\* Bug variant of CleanupExpired: no early return, and the loop ranges over
\* s.testMap, reading s.expiresAt[id] (the zero time when the key is missing).
CleanupRangeTestMap ==
    \/ /\ cleanupPc = "idle"
       /\ cleanupPc' = "lock"
       /\ cleanupNow' = now
       /\ UNCHANGED << testMap, expiresAt, ttl, now, last, putAt, putQs >>
    \/ /\ cleanupPc = "lock"
       /\ LET dead == { id \in DOMAIN testMap :
                          After(cleanupNow, IF id \in DOMAIN expiresAt
                                            THEN expiresAt[id] ELSE -1) } IN
          /\ testMap' = MapDelete(testMap, dead)
          /\ expiresAt' = MapDelete(expiresAt, dead)
       /\ cleanupPc' = "idle"
       /\ cleanupNow' = 0
       /\ last' = [NoCall EXCEPT !.op = "Sweep", !.t = cleanupNow]
       /\ UNCHANGED << ttl, now, putAt, putQs >>

CleanupExpired == CleanupBegin \/ CleanupLocked

\* ---------------------------------------------------------------- clock
Tick ==
    /\ now < MaxTime
    /\ now' = now + 1
    /\ last' = NoCall
    /\ UNCHANGED << testMap, expiresAt, ttl, cleanupPc, cleanupNow, putAt, putQs >>

\* The store driven directly through its three operations, no HTTP request.
Next ==
    \/ \E testID \in TestIDs, qs \in QuestionSets :
          Put(testID, qs) /\ UNCHANGED << httpVars, idVars, lockVars >>
    \/ \E testID \in TestIDs : Get(testID) /\ UNCHANGED << httpVars, idVars, lockVars >>
    \/ CleanupExpired /\ UNCHANGED << httpVars, idVars, lockVars >>
    \/ Tick /\ UNCHANGED << httpVars, idVars, lockVars >>

Spec == Init /\ [][Next]_vars

\* ================================================================ HTTP
\* ---------------------------------------------------------- more bounds
\* A /submit body carries at most MaxAnswers answers in the grading runs.
MaxAnswers == 3

\* store = NewTestStore(30 * time.Minute); one clock tick is 15 minutes.
StoreTTL == 2

\* ------------------------------------------------------------- requests
Methods == {"POST", "GET", "OPTIONS"}

\* The question ids a client may send: those of the bank and one unknown id.
AnswerIDs == 1..(Len(baseQuestions) + 1)

\* The choices a client may send: -1 is no index of any option list.
Choices == (-1)..1

\* One element of SubmitRequest.Answers.
AnswerOf(id, c) == [QuestionID |-> id, Choice |-> c]

Answers == { AnswerOf(id, c) : id \in AnswerIDs, c \in Choices }

\* Every answer list of at most n answers.
AnswerLists(n) == UNION { [1..k -> Answers] : k \in 0..n }

\* The answer list sent in the runs that interleave requests with the store
\* (SpecGrade grades every list): one right answer, sent four times.
SampleAnswerLists ==
    { << AnswerOf(1, 0), AnswerOf(1, 0), AnswerOf(1, 0), AnswerOf(1, 0) >> }

StartRequest(method, bodyOK) ==
    [path |-> "/start", method |-> method, bodyOK |-> bodyOK,
     test_id |-> None, answers |-> << >>]

\* The body is decoded by a POST only, and only a body that decodes has fields.
SubmitRequest(method, bodyOK, testID, answers) ==
    [path |-> "/submit", method |-> method, bodyOK |-> bodyOK,
     test_id |-> IF method = "POST" /\ bodyOK THEN testID ELSE None,
     answers |-> IF method = "POST" /\ bodyOK THEN answers ELSE << >>]

\* Method and body of a request; only a POST has its body decoded.
MethodBodies ==
    { << m, TRUE >> : m \in Methods } \cup { << "POST", FALSE >> }

\* A request to a path the mux has no handler for; nothing decodes its body.
OtherRequest(method) ==
    [path |-> "/other", method |-> method, bodyOK |-> TRUE,
     test_id |-> None, answers |-> << >>]

Requests ==
    { StartRequest(mb[1], mb[2]) : mb \in MethodBodies }
    \cup { SubmitRequest(mb[1], mb[2], id, as) :
             mb \in MethodBodies, id \in TestIDs, as \in SampleAnswerLists }
    \cup { OtherRequest(m) : m \in Methods }

\* ------------------------------------------------------------ responses
\* writeJSON(w, status, map[string]any{"success": false, "error": msg})
ErrorResponse(status, msg) ==
    [NoResp EXCEPT !.status = status, !.error = msg]

\* w.WriteHeader(http.StatusNoContent), no body
NoContent == [NoResp EXCEPT !.status = 204]

\* Bug variant of PublicQuestion: the whole Question is copied, Answer included.
PublicQuestionWithAnswer(q) == [ID |-> q.ID, Answer |-> q.Answer]

\* PublicQuestion{ID: q.ID, Question: q.Question, Options: q.Options}
PublicQuestion(q) == [ID |-> q.ID]

\* The loop that builds pub from baseQuestions.
PublicQuestions(qs) == [i \in 1..Len(qs) |-> PublicQuestion(qs[i])]

\* -------------------------------------------------------------- grading
\* qByID: the last question of qs with a given ID wins.
QByID(qs) ==
    [id \in { qs[i].ID : i \in 1..Len(qs) } |->
        LET k == CHOOSE i \in 1..Len(qs) :
                    /\ qs[i].ID = id
                    /\ \A j \in 1..Len(qs) : qs[j].ID = id => j <= i
        IN qs[k]]

ReviewItem(q, a) ==
    [QuestionID |-> q.ID, CorrectChoice |-> q.Answer, UserChoice |-> a.Choice]

\* Bug variant of GradeStep: the score test is inverted.
GradeStepInverted(acc, a, qByID) ==
    IF a.QuestionID \notin DOMAIN qByID THEN acc
    ELSE LET q == qByID[a.QuestionID] IN
         [score |-> acc.score + (IF a.Choice # q.Answer THEN 1 ELSE 0),
          review |-> Append(acc.review, ReviewItem(q, a))]

\* Bug variant of GradeStep: the exists test is missing, so an unknown id is
\* graded against the zero Question.
GradeStepNoSkip(acc, a, qByID) ==
    LET q == IF a.QuestionID \in DOMAIN qByID THEN qByID[a.QuestionID]
             ELSE [ID |-> 0, Answer |-> 0] IN
    [score |-> acc.score + (IF a.Choice = q.Answer THEN 1 ELSE 0),
     review |-> Append(acc.review, ReviewItem(q, a))]

\* Bug variant of GradeStep: the review item is put in front of the list.
GradeStepPrepend(acc, a, qByID) ==
    IF a.QuestionID \notin DOMAIN qByID THEN acc
    ELSE LET q == qByID[a.QuestionID] IN
         [score |-> acc.score + (IF a.Choice = q.Answer THEN 1 ELSE 0),
          review |-> << ReviewItem(q, a) >> \o acc.review]

\* Bug variant of GradeStep: only a wrong answer gets a review item.
GradeStepWrongOnly(acc, a, qByID) ==
    IF a.QuestionID \notin DOMAIN qByID THEN acc
    ELSE LET q == qByID[a.QuestionID] IN
         [score |-> acc.score + (IF a.Choice = q.Answer THEN 1 ELSE 0),
          review |-> IF a.Choice = q.Answer THEN acc.review
                     ELSE Append(acc.review, ReviewItem(q, a))]

\* One iteration of the loop over req.Answers.
GradeStep(acc, a, qByID) ==
    IF a.QuestionID \notin DOMAIN qByID THEN acc
    ELSE LET q == qByID[a.QuestionID] IN
         [score |-> acc.score + (IF a.Choice = q.Answer THEN 1 ELSE 0),
          review |-> Append(acc.review, ReviewItem(q, a))]

\* The loop over req.Answers, from score = 0 and an empty review.
RECURSIVE GradeLoop(_, _)
GradeLoop(answers, qByID) ==
    IF answers = << >> THEN [score |-> 0, review |-> << >>]
    ELSE GradeStep(GradeLoop(SubSeq(answers, 1, Len(answers) - 1), qByID),
                   answers[Len(answers)], qByID)

\* Bug variant of SubmitTotal: the number of answers submitted.
SubmitTotalAnswers(qs, answers) == Len(answers)

\* Bug variant of SubmitTotal: the score is reported as the total.
SubmitTotalScore(qs, answers) == GradeLoop(answers, QByID(qs)).score

\* Total: len(qs)
SubmitTotal(qs, answers) == Len(qs)

\* SubmitResponse{Success: true, Score: score, Total: len(qs), Results: review}
GradeResponse(qs, answers) ==
    LET g == GradeLoop(answers, QByID(qs)) IN
    [NoResp EXCEPT !.status = 200, !.success = TRUE, !.score = g.score,
                   !.total = SubmitTotal(qs, answers), !.results = g.review]

\* ------------------------------------------------------------- handlers
\* The server takes up the request r; again records that r is the /submit
\* that was graded just before it.
Handled(r) ==
    /\ req' = r
    /\ again' = (r = req /\ r.path = "/submit" /\ resp.status = 200)

\* Bug variant of StartHandler: the session gets some question set of its own.
StartHandlerOwnSet(r, testID) ==
    /\ Handled(r)
    /\ IF r.method # "POST"
       THEN resp' = ErrorResponse(405, "Method Not Allowed") /\ UNCHANGED storeVars
       ELSE IF ~r.bodyOK
       THEN resp' = ErrorResponse(400, "invalid json") /\ UNCHANGED storeVars
       ELSE /\ \E qs \in QuestionSets : Put(testID, qs)
            /\ resp' = [NoResp EXCEPT !.status = 200, !.success = TRUE,
                                      !.test_id = testID,
                                      !.test = PublicQuestions(baseQuestions)]

\* Bug variant of StartHandler: the method is not looked at.
StartHandlerAnyMethod(r, testID) ==
    /\ Handled(r)
    /\ IF ~r.bodyOK
       THEN resp' = ErrorResponse(400, "invalid json") /\ UNCHANGED storeVars
       ELSE \E id \in (IF testID = None THEN TestIDs ELSE {testID}) :
               /\ Put(id, baseQuestions)
               /\ resp' = [NoResp EXCEPT !.status = 200, !.success = TRUE,
                                         !.test_id = id,
                                         !.test = PublicQuestions(baseQuestions)]

\* Bug variant of StartHandler: the session is stored before the body is decoded.
StartHandlerPutFirst(r, testID) ==
    /\ Handled(r)
    /\ IF r.method # "POST"
       THEN resp' = ErrorResponse(405, "Method Not Allowed") /\ UNCHANGED storeVars
       ELSE IF ~r.bodyOK
       THEN /\ \E id \in TestIDs : Put(id, baseQuestions)
            /\ resp' = ErrorResponse(400, "invalid json")
       ELSE /\ Put(testID, baseQuestions)
            /\ resp' = [NoResp EXCEPT !.status = 200, !.success = TRUE,
                                      !.test_id = testID,
                                      !.test = PublicQuestions(baseQuestions)]

\* Bug variant of StartHandler: an id that is already stored is refused.
StartHandlerRefuseStored(r, testID) ==
    /\ Handled(r)
    /\ IF r.method # "POST"
       THEN resp' = ErrorResponse(405, "Method Not Allowed") /\ UNCHANGED storeVars
       ELSE IF ~r.bodyOK
       THEN resp' = ErrorResponse(400, "invalid json") /\ UNCHANGED storeVars
       ELSE IF testID \in DOMAIN testMap
       THEN resp' = ErrorResponse(400, "test_id in use") /\ UNCHANGED storeVars
       ELSE /\ Put(testID, baseQuestions)
            /\ resp' = [NoResp EXCEPT !.status = 200, !.success = TRUE,
                                      !.test_id = testID,
                                      !.test = PublicQuestions(baseQuestions)]

\* startHandler; testID is what randomTestID() returns.
StartHandler(r, testID) ==
    /\ Handled(r)
    /\ IF r.method # "POST"
       THEN resp' = ErrorResponse(405, "Method Not Allowed") /\ UNCHANGED storeVars
       ELSE IF ~r.bodyOK
       THEN resp' = ErrorResponse(400, "invalid json") /\ UNCHANGED storeVars
       ELSE /\ Put(testID, baseQuestions)
            /\ resp' = [NoResp EXCEPT !.status = 200, !.success = TRUE,
                                      !.test_id = testID,
                                      !.test = PublicQuestions(baseQuestions)]

\* Bug variant of SubmitHandler: a graded session is removed from the store.
SubmitHandlerConsume(r) ==
    /\ Handled(r)
    /\ IF r.method # "POST"
       THEN resp' = ErrorResponse(405, "Method Not Allowed") /\ UNCHANGED storeVars
       ELSE IF ~r.bodyOK
       THEN resp' = ErrorResponse(400, "invalid json") /\ UNCHANGED storeVars
       ELSE LET g == GetResult(testMap, expiresAt, r.test_id, now)
                dead == IF g.ok THEN {r.test_id} ELSE {} IN
            /\ last' = [op |-> "Get", id |-> r.test_id, qs |-> NilQuestions,
                        t |-> now, ok |-> g.ok, ret |-> g.qs,
                        pre |-> "none", rep |-> 0]
            /\ testMap' = MapDelete(testMap, dead)
            /\ expiresAt' = MapDelete(expiresAt, dead)
            /\ UNCHANGED << ttl, now, cleanupPc, cleanupNow, putAt, putQs >>
            /\ resp' = IF ~g.ok
                       THEN ErrorResponse(400, "invalid or expired test_id")
                       ELSE GradeResponse(g.qs, r.answers)

\* Bug variant of SubmitHandler: an expired record gets its own error.
SubmitHandlerTellsExpired(r) ==
    /\ Handled(r)
    /\ IF r.method # "POST"
       THEN resp' = ErrorResponse(405, "Method Not Allowed") /\ UNCHANGED storeVars
       ELSE IF ~r.bodyOK
       THEN resp' = ErrorResponse(400, "invalid json") /\ UNCHANGED storeVars
       ELSE /\ Get(r.test_id)
            /\ resp' = IF ~last'.ok
                       THEN (IF r.test_id \in DOMAIN testMap
                             THEN ErrorResponse(400, "expired test_id")
                             ELSE ErrorResponse(400, "invalid test_id"))
                       ELSE GradeResponse(last'.ret, r.answers)

\* Bug variant of SubmitHandler: grading a session renews its expiration.
SubmitHandlerRenew(r) ==
    /\ Handled(r)
    /\ IF r.method # "POST"
       THEN resp' = ErrorResponse(405, "Method Not Allowed") /\ UNCHANGED storeVars
       ELSE IF ~r.bodyOK
       THEN resp' = ErrorResponse(400, "invalid json") /\ UNCHANGED storeVars
       ELSE LET g == GetResult(testMap, expiresAt, r.test_id, now) IN
            /\ last' = [op |-> "Get", id |-> r.test_id, qs |-> NilQuestions,
                        t |-> now, ok |-> g.ok, ret |-> g.qs,
                        pre |-> "none", rep |-> 0]
            /\ expiresAt' = IF g.ok THEN PutExpiresAt(expiresAt, r.test_id, now)
                                    ELSE expiresAt
            /\ UNCHANGED << testMap, ttl, now, cleanupPc, cleanupNow, putAt, putQs >>
            /\ resp' = IF ~g.ok
                       THEN ErrorResponse(400, "invalid or expired test_id")
                       ELSE GradeResponse(g.qs, r.answers)

\* submitHandler; qs, ok := store.Get(req.TestID) is the observation last'.
SubmitHandler(r) ==
    /\ Handled(r)
    /\ IF r.method # "POST"
       THEN resp' = ErrorResponse(405, "Method Not Allowed") /\ UNCHANGED storeVars
       ELSE IF ~r.bodyOK
       THEN resp' = ErrorResponse(400, "invalid json") /\ UNCHANGED storeVars
       ELSE /\ Get(r.test_id)
            /\ resp' = IF ~last'.ok
                       THEN ErrorResponse(400, "invalid or expired test_id")
                       ELSE GradeResponse(last'.ret, r.answers)

\* mux.ServeHTTP: the handler registered for the path, 404 for any other path.
Mux(r, testID) ==
    IF r.path = "/start" THEN StartHandler(r, testID)
    ELSE IF r.path = "/submit" THEN SubmitHandler(r)
    ELSE Handled(r) /\ resp' = ErrorResponse(404, "404 page not found")
                    /\ UNCHANGED storeVars

\* Bug variant of WithCORS: the return after WriteHeader(204) is missing, the
\* request goes on to the mux and the handler writes its own answer.
WithCORSNoReturn(r, testID) == Mux(r, testID)

\* withCORS(mux): OPTIONS is answered here, the rest goes to the mux.
WithCORS(r, testID) ==
    IF r.method = "OPTIONS"
    THEN Handled(r) /\ resp' = NoContent /\ UNCHANGED storeVars
    ELSE Mux(r, testID)

\* ----------------------------------------------------- the server, main
InitHTTP ==
    /\ NewTestStore(StoreTTL)
    /\ now = 0
    /\ cleanupPc = "idle"
    /\ cleanupNow = 0
    /\ last = NoCall
    /\ putAt = [id \in TestIDs |-> None]
    /\ putQs = [id \in TestIDs |-> NilQuestions]
    /\ req = NoReq
    /\ resp = NoResp
    /\ again = FALSE
    /\ NoRandomTestID
    /\ NoStoreCalls

\* What randomTestID() may return to the request r: it is called by a /start
\* that is a POST with a body that decodes, and by no other request.
GeneratedIDs(r) ==
    IF r.path = "/start" /\ r.method = "POST" /\ r.bodyOK THEN TestIDs ELSE {None}

ServeHTTP == \E r \in Requests : \E testID \in GeneratedIDs(r) : WithCORS(r, testID)

NextHTTP ==
    \/ ServeHTTP /\ UNCHANGED << idVars, lockVars >>
    \/ CleanupExpired /\ UNCHANGED << httpVars, idVars, lockVars >>
    \/ Tick /\ UNCHANGED << httpVars, idVars, lockVars >>

SpecHTTP == InitHTTP /\ [][NextHTTP]_vars

\* ------------------------------------------- the store with a live ticker
\* for range t.C { store.CleanupExpired() }: the ticker keeps firing, and a
\* CleanupExpired that was called gets the lock and returns.
TickerFires == CleanupExpired /\ UNCHANGED << httpVars, idVars, lockVars >>

\* The store calls of the server: startHandler's Put of the question bank,
\* submitHandler's Get, the ticker's CleanupExpired; and the clock.
NextSweep ==
    \/ \E testID \in TestIDs :
          Put(testID, baseQuestions) /\ UNCHANGED << httpVars, idVars, lockVars >>
    \/ \E testID \in TestIDs : Get(testID) /\ UNCHANGED << httpVars, idVars, lockVars >>
    \/ TickerFires
    \/ Tick /\ UNCHANGED << httpVars, idVars, lockVars >>

\* The store of main (ttl of 30 minutes) under any calls of Put and Get, with
\* the sweep task scheduled for ever.
SpecSweepFair == InitHTTP /\ [][NextSweep]_vars /\ WF_vars(TickerFires)

\* ------------------------------------------------- grading, every input
\* One session holding a question set, and one /submit request for it with
\* any answer list of at most MaxAnswers answers; the step handles the request.
InitGrade ==
    /\ \E qs \in QuestionSets :
          /\ testMap = PutTestMap(EmptyMap, 1, qs)
          /\ putQs = [id \in TestIDs |-> IF id = 1 THEN qs ELSE NilQuestions]
    /\ ttl = StoreTTL
    /\ expiresAt = PutExpiresAt(EmptyMap, 1, 0)
    /\ now = 0
    /\ cleanupPc = "idle"
    /\ cleanupNow = 0
    /\ last = NoCall
    /\ putAt = [id \in TestIDs |-> IF id = 1 THEN 0 ELSE None]
    /\ \E as \in AnswerLists(MaxAnswers) : req = SubmitRequest("POST", TRUE, 1, as)
    /\ resp = NoResp
    /\ again = FALSE
    /\ NoRandomTestID
    /\ NoStoreCalls

NextGrade == resp = NoResp /\ SubmitHandler(req) /\ UNCHANGED << idVars, lockVars >>

SpecGrade == InitGrade /\ [][NextGrade]_vars

\* ------------------------------------------------------- randomTestID
\* What rand.Intn(n) returns when the byte b[i] is drawn (i counted from 0):
\* any of 0..n-1.  The runs take every value for the first byte and the two
\* ends of the range for the other bytes.
RandIntn(n, i) == IF i = 0 THEN 0..(n - 1) ELSE {0, n - 1}

\* for i := range b { b[i] = letters[rand.Intn(len(letters))] }, one iteration
RandomTestIDLoop ==
    /\ idI < Len(idB)
    /\ idOut = << >>
    /\ \E k \in RandIntn(Len(letters), idI) :
          idB' = [idB EXCEPT ![idI + 1] = letters[k + 1]]
    /\ idI' = idI + 1
    /\ UNCHANGED idOut

\* Bug variant of RandomTestIDReturn: the prefix is "test", without the dash.
RandomTestIDReturnNoDash ==
    /\ idI = Len(idB)
    /\ idOut = << >>
    /\ idOut' = << "t", "e", "s", "t" >> \o idB
    /\ UNCHANGED << idB, idI >>

\* return "test-" + string(b)
RandomTestIDReturn ==
    /\ idI = Len(idB)
    /\ idOut = << >>
    /\ idOut' = << "t", "e", "s", "t", "-" >> \o idB
    /\ UNCHANGED << idB, idI >>

\* One call of randomTestID, from its first line to its return.
NextID ==
    \/ RandomTestIDLoop /\ UNCHANGED << storeVars, httpVars, lockVars >>
    \/ RandomTestIDReturn /\ UNCHANGED << storeVars, httpVars, lockVars >>

SpecID == InitHTTP /\ [][NextID]_vars

\* ------------------------------------------------ the store under its lock
\* Put, Get and CleanupExpired run by goroutines, line by line, under s.mu.
\* call[p].at is the line goroutine p is about to execute: "Lock" / "RLock"
\* (about to call s.mu.Lock() / RLock()), "Drain" (inside Lock(), the writer
\* side taken, waiting for the readers to leave), "L82" .. "L113" (lines of
\* main.go inside the critical section).  sync.RWMutex: a writer excludes
\* everyone, readers share, and once a writer has called Lock no new reader
\* gets in until that writer has unlocked.

\* What stays as it is in every step of a store call.
lockFrame ==
    << ttl, now, cleanupPc, cleanupNow, last, putAt, putQs,
       req, resp, again, idB, idI, idOut >>

\* Goroutine p calls store.Put(testID, qs).
CallPut(p, testID, qs) ==
    /\ call[p].at = "idle"
    /\ call' = [call EXCEPT ![p] = [IdleCall EXCEPT !.op = "Put", !.at = "Lock",
                                                     !.id = testID, !.qs = qs]]
    /\ UNCHANGED << testMap, expiresAt, mu, committed >>

\* Goroutine p calls store.Get(testID).
CallGet(p, testID) ==
    /\ call[p].at = "idle"
    /\ call' = [call EXCEPT ![p] = [IdleCall EXCEPT !.op = "Get", !.at = "RLock",
                                                     !.id = testID]]
    /\ UNCHANGED << testMap, expiresAt, mu, committed >>

\* The ticker goroutine calls store.CleanupExpired(): the ttl test and
\* now := time.Now(), both before the lock.
CallCleanupExpired(p) ==
    /\ call[p].at = "idle"
    /\ call' = IF ttl = 0
               THEN call
               ELSE [call EXCEPT ![p] = [IdleCall EXCEPT !.op = "Sweep",
                                                         !.at = "Lock", !.t = now]]
    /\ UNCHANGED << testMap, expiresAt, mu, committed >>

\* s.mu.Lock(), entered: the writer side is taken, new readers are held back.
MuLock(p) ==
    /\ call[p].at = "Lock"
    /\ mu.w = None
    /\ mu' = [mu EXCEPT !.w = p]
    /\ call' = [call EXCEPT ![p].at = "Drain"]
    /\ UNCHANGED << testMap, expiresAt, committed >>

\* Bug variant of MuLocked: Lock() does not wait for the readers to leave.
MuLockedNoDrain(p) ==
    /\ call[p].at = "Drain"
    /\ call' = [call EXCEPT ![p].at = IF call[p].op = "Put" THEN "L82" ELSE "L110",
                            ![p].todo = IF call[p].op = "Put" THEN {}
                                        ELSE DOMAIN expiresAt]
    /\ UNCHANGED << testMap, expiresAt, mu, committed >>

\* s.mu.Lock() returns: no reader is left.  CleanupExpired starts its range
\* over s.expiresAt here.
MuLocked(p) ==
    /\ call[p].at = "Drain"
    /\ mu.r = {}
    /\ call' = [call EXCEPT ![p].at = IF call[p].op = "Put" THEN "L82" ELSE "L110",
                            ![p].todo = IF call[p].op = "Put" THEN {}
                                        ELSE DOMAIN expiresAt]
    /\ UNCHANGED << testMap, expiresAt, mu, committed >>

\* Bug variant of MuRLock: the read lock is granted while a writer is in.
MuRLockNoWait(p) ==
    /\ call[p].at = "RLock"
    /\ mu' = [mu EXCEPT !.r = @ \cup {p}]
    /\ call' = [call EXCEPT ![p].at = "L91"]
    /\ UNCHANGED << testMap, expiresAt, committed >>

\* s.mu.RLock() returns: no writer holds or has asked for the lock.
MuRLock(p) ==
    /\ call[p].at = "RLock"
    /\ mu.w = None
    /\ mu' = [mu EXCEPT !.r = @ \cup {p}]
    /\ call' = [call EXCEPT ![p].at = "L91"]
    /\ UNCHANGED << testMap, expiresAt, committed >>

\* s.testMap[testID] = qs
PutL82(p) ==
    /\ call[p].at = "L82"
    /\ testMap' = PutTestMap(testMap, call[p].id, call[p].qs)
    /\ call' = [call EXCEPT ![p].at = "L83"]
    /\ UNCHANGED << expiresAt, mu, committed >>

\* if s.ttl > 0 { s.expiresAt[testID] = time.Now().Add(s.ttl) }, then the
\* deferred s.mu.Unlock() and the return.
PutL83(p) ==
    /\ call[p].at = "L83"
    /\ expiresAt' = PutExpiresAt(expiresAt, call[p].id, now)
    /\ mu' = [mu EXCEPT !.w = None]
    /\ committed' = [testMap |-> PutTestMap(committed.testMap, call[p].id, call[p].qs),
                     expiresAt |-> PutExpiresAt(committed.expiresAt, call[p].id, now)]
    /\ call' = [call EXCEPT ![p] = IdleCall]
    /\ UNCHANGED testMap

\* Bug variant of GetL91: the early return leaves without s.mu.RUnlock().
GetL91NoUnlock(p) ==
    /\ call[p].at = "L91"
    /\ IF call[p].id \notin DOMAIN testMap
       THEN call' = [call EXCEPT ![p] = IdleCall] /\ UNCHANGED mu
       ELSE /\ call' = [call EXCEPT ![p].at = "L95", ![p].qs = testMap[call[p].id]]
            /\ UNCHANGED mu
    /\ UNCHANGED << testMap, expiresAt, committed >>

\* qs, ok := s.testMap[testID]; if !ok { return nil, false } (with the
\* deferred s.mu.RUnlock())
GetL91(p) ==
    /\ call[p].at = "L91"
    /\ IF call[p].id \notin DOMAIN testMap
       THEN /\ call' = [call EXCEPT ![p] = IdleCall]
            /\ mu' = [mu EXCEPT !.r = @ \ {p}]
       ELSE /\ call' = [call EXCEPT ![p].at = "L95", ![p].qs = testMap[call[p].id]]
            /\ UNCHANGED mu
    /\ UNCHANGED << testMap, expiresAt, committed >>

\* What Get returns from line 95 on: the expiration test on s.expiresAt and
\* the clock, and the qs read at line 91.
GetL95Result(p) ==
    IF ttl > 0 /\ call[p].id \in DOMAIN expiresAt
               /\ After(now, expiresAt[call[p].id])
    THEN [qs |-> NilQuestions, ok |-> FALSE]
    ELSE [qs |-> call[p].qs, ok |-> TRUE]

\* The expiration test and the return of Get, with the deferred RUnlock.
GetL95(p) ==
    /\ call[p].at = "L95"
    /\ call' = [call EXCEPT ![p] = IdleCall]
    /\ mu' = [mu EXCEPT !.r = @ \ {p}]
    /\ UNCHANGED << testMap, expiresAt, committed >>

\* for id, exp := range s.expiresAt: the next key, in any order, and the
\* test now.After(exp); when the range is over, the deferred Unlock and return.
SweepL110(p) ==
    /\ call[p].at = "L110"
    /\ IF call[p].todo = {}
       THEN /\ call' = [call EXCEPT ![p] = IdleCall]
            /\ mu' = [mu EXCEPT !.w = None]
            /\ committed' =
                 LET dead == ExpiredIDs(committed.expiresAt, call[p].t) IN
                 [testMap |-> MapDelete(committed.testMap, dead),
                  expiresAt |-> MapDelete(committed.expiresAt, dead)]
       ELSE /\ \E id \in call[p].todo :
                 call' = [call EXCEPT ![p].todo = @ \ {id},
                                      ![p].id = id,
                                      ![p].at = IF After(call[p].t, expiresAt[id])
                                                THEN "L112" ELSE "L110"]
            /\ UNCHANGED << mu, committed >>
    /\ UNCHANGED << testMap, expiresAt >>

\* delete(s.testMap, id)
SweepL112(p) ==
    /\ call[p].at = "L112"
    /\ testMap' = MapDelete(testMap, {call[p].id})
    /\ call' = [call EXCEPT ![p].at = "L113"]
    /\ UNCHANGED << expiresAt, mu, committed >>

\* delete(s.expiresAt, id)
SweepL113(p) ==
    /\ call[p].at = "L113"
    /\ expiresAt' = MapDelete(expiresAt, {call[p].id})
    /\ call' = [call EXCEPT ![p].at = "L110"]
    /\ UNCHANGED << testMap, mu, committed >>

\* A step of goroutine p that waits for nobody.
Run(p) ==
    /\ \/ MuLocked(p)
       \/ PutL82(p)
       \/ PutL83(p)
       \/ GetL91(p)
       \/ GetL95(p)
       \/ SweepL110(p)
       \/ SweepL112(p)
       \/ SweepL113(p)
    /\ UNCHANGED lockFrame

\* Goroutine p gets past the queue of s.mu.
Acquire(p) == (MuLock(p) \/ MuRLock(p)) /\ UNCHANGED lockFrame

\* The keys of the concurrent calls: the one the calls contend for, and another.
LockIDs == {1, MaxTestIDs}

\* A store call begins; the server's Put stores the question bank.
Called ==
    /\ \/ \E p \in Handlers, testID \in LockIDs :
             CallPut(p, testID, baseQuestions)
       \/ \E p \in Handlers, testID \in LockIDs : CallGet(p, testID)
       \/ CallCleanupExpired(Sweeper)
    /\ UNCHANGED lockFrame

NextLock ==
    \/ Called
    \/ \E p \in Goroutines : Acquire(p)
    \/ \E p \in Goroutines : Run(p)
    \/ Tick /\ UNCHANGED << httpVars, idVars, lockVars >>

SpecLock == InitHTTP /\ [][NextLock]_vars

\* The store at a moment when a session stored at time 0 has expired and has
\* not been swept, and no call is in progress.
InitLockFair ==
    /\ ttl = StoreTTL
    /\ testMap = PutTestMap(EmptyMap, 1, baseQuestions)
    /\ expiresAt = PutExpiresAt(EmptyMap, 1, 0)
    /\ now = StoreTTL + 1
    /\ cleanupPc = "idle"
    /\ cleanupNow = 0
    /\ last = NoCall
    /\ putAt = [id \in TestIDs |-> IF id = 1 THEN 0 ELSE None]
    /\ putQs = [id \in TestIDs |-> IF id = 1 THEN baseQuestions ELSE NilQuestions]
    /\ req = NoReq
    /\ resp = NoResp
    /\ again = FALSE
    /\ NoRandomTestID
    /\ mu = [w |-> None, r |-> {}]
    /\ call = [p \in Goroutines |-> IdleCall]
    /\ committed = [testMap |-> testMap, expiresAt |-> expiresAt]

\* The calls within one instant of the clock.
NextLockFair ==
    \/ Called
    \/ \E p \in Goroutines : Acquire(p)
    \/ \E p \in Goroutines : Run(p)

\* The scheduler runs every goroutine that can run, and s.mu lets no
\* goroutine wait forever while the lock keeps becoming free.
FairLock ==
    \A p \in Goroutines : WF_vars(Run(p)) /\ SF_vars(Acquire(p))

SpecLockFair == InitLockFair /\ [][NextLockFair]_vars /\ FairLock

\* ------------------------------------------------------- observed steps
\* A step that is a call of Get (it rewrites the observation of the last call).
GetStep == last' # last /\ last'.op = "Get"

\* The step in which CleanupExpired holds the lock, runs its loop and returns.
SweepStep == cleanupPc = "lock" /\ cleanupPc' = "idle"

\* The last call was Get(id) and id has been Put before it.
GotAfterPut == last.op = "Get" /\ putAt[last.id] # None

\* ------------------------------------------------------------------ C1
\* C1: with ttl > 0, a Get(id) at the very time of the latest Put(id, qs)
\* returns found = true and exactly the question set qs of that Put.
C1_GetRightAfterPut ==
    (ttl > 0 /\ GotAfterPut /\ last.t = putAt[last.id])
        => (last.ok /\ last.ret = putQs[last.id])

C1_Witness ==
    /\ ttl > 0 /\ GotAfterPut /\ last.t = putAt[last.id]
    /\ last.ok /\ last.ret = baseQuestions

\* ------------------------------------------------------------------ C2
\* C2 as stated: with ttl > 0, Get finds a record Put at time T exactly at
\* the query times t < T + ttl, and misses it at every t >= T + ttl.
C2_FoundIffBeforeExpiry ==
    (ttl > 0 /\ GotAfterPut) => (last.ok <=> last.t < putAt[last.id] + ttl)

\* C2 amended: with ttl > 0, Get finds a record Put at time T (with the
\* stored question set) exactly at the query times t <= T + ttl, and misses
\* it at every t > T + ttl, swept or not.
C2_FoundIffNotAfterExpiry ==
    (ttl > 0 /\ GotAfterPut)
        => /\ last.ok <=> last.t <= putAt[last.id] + ttl
           /\ last.ok => last.ret = putQs[last.id]

C2_Witness ==
    ttl > 0 /\ GotAfterPut /\ last.t = putAt[last.id] + ttl /\ last.ok

\* ------------------------------------------------------------------ C3
\* C3: with ttl > 0, a Get(id) at a time strictly later than the time of the
\* latest Put(id) plus ttl is a miss, whether or not a sweep removed the record.
C3_MissAfterExpiry ==
    (ttl > 0 /\ GotAfterPut /\ last.t > putAt[last.id] + ttl) => ~last.ok

\* The miss happens on a record that no sweep has removed yet.
C3_Witness ==
    /\ ttl > 0 /\ GotAfterPut /\ last.t > putAt[last.id] + ttl
    /\ ~last.ok /\ last.id \in DOMAIN testMap

\* ------------------------------------------------------------------ C4
\* C4 as stated: with ttl > 0, a sweep that captured time T deletes every
\* record whose expiration is at or before T.
C4_SweepDeletesAtOrBefore ==
    [][(SweepStep /\ ttl > 0) =>
          \A id \in DOMAIN expiresAt :
              expiresAt[id] <= cleanupNow => id \notin DOMAIN testMap']_vars

\* C4 amended: with ttl > 0, a sweep that captured time T deletes every
\* record whose expiration is strictly before T: the id is gone from both
\* maps and every later Get misses it; a record with expiration = T stays.
C4_SweepDeletesBefore ==
    [][(SweepStep /\ ttl > 0) =>
          \A id \in DOMAIN expiresAt :
              /\ expiresAt[id] < cleanupNow =>
                    /\ id \notin DOMAIN testMap'
                    /\ id \notin DOMAIN expiresAt'
                    /\ \A t \in Times : ~GetResult(testMap', expiresAt', id, t).ok
              /\ expiresAt[id] = cleanupNow => id \in DOMAIN testMap']_vars

\* A sweep has returned and a record that was Put is gone.
C4_Witness ==
    /\ ttl > 0 /\ last.op = "Sweep"
    /\ \E id \in TestIDs : putAt[id] # None /\ id \notin DOMAIN testMap

\* ------------------------------------------------------------------ C5
\* C5: a sweep that captured time T leaves every record with expiration > T
\* as it was (same question set, same expiration), and Get at any time
\* before that expiration still returns it.
C5_SweepKeepsUnexpired ==
    [][SweepStep =>
          \A id \in DOMAIN expiresAt :
              expiresAt[id] > cleanupNow =>
                  /\ id \in DOMAIN testMap' /\ testMap'[id] = testMap[id]
                  /\ id \in DOMAIN expiresAt' /\ expiresAt'[id] = expiresAt[id]
                  /\ \A t \in Times :
                        t < expiresAt[id] =>
                            GetResult(testMap', expiresAt', id, t)
                                = [qs |-> testMap[id], ok |-> TRUE]]_vars

\* A sweep has returned; it removed one record and kept an unexpired one.
C5_Witness ==
    /\ last.op = "Sweep" /\ last.t # None
    /\ \E id \in DOMAIN expiresAt : expiresAt[id] > last.t /\ id \in DOMAIN testMap
    /\ \E id \in TestIDs : putAt[id] # None /\ id \notin DOMAIN testMap

\* ------------------------------------------------------------------ C6
\* C6: in a store constructed with ttl = 0, every record that was ever Put
\* is still in the store with the question set of its latest Put, whatever
\* sweeps ran and however much time passed.
C6_NoRemovalWithoutTTL ==
    ttl = 0 =>
        \A id \in TestIDs :
            putAt[id] # None => (id \in DOMAIN testMap /\ testMap[id] = putQs[id])

\* A sweep was called, after time had passed since a Put.
C6_Witness ==
    /\ ttl = 0 /\ last.op = "Sweep"
    /\ \E id \in TestIDs : putAt[id] # None /\ putAt[id] < now

\* ------------------------------------------------------------------ C7
\* C7: in a store constructed with ttl = 0, Put records no expiration, and
\* every Get of an id that was Put returns found = true with the question
\* set of its latest Put, at every later time.
C7_NeverExpiresWithoutTTL ==
    ttl = 0 =>
        /\ DOMAIN expiresAt = {}
        /\ GotAfterPut => (last.ok /\ last.ret = putQs[last.id])

C7_Witness ==
    /\ ttl = 0 /\ GotAfterPut /\ last.ok
    /\ last.t > putAt[last.id] + MaxTTL

\* ------------------------------------------------------------------ C8
\* C8: with ttl > 0, after Put(id, qs) at time T the expiration of id is
\* exactly T + ttl and its question set is qs, whether id was new, live or
\* expired and unswept; Get returns it at every time from T up to T + ttl.
C8_PutSetsExpiration ==
    (ttl > 0 /\ last.op = "Put") =>
        /\ last.id \in DOMAIN expiresAt /\ expiresAt[last.id] = last.t + ttl
        /\ last.id \in DOMAIN testMap /\ testMap[last.id] = last.qs
        /\ \A t \in Times :
              (last.t <= t /\ t < last.t + ttl) =>
                  GetResult(testMap, expiresAt, last.id, t)
                      = [qs |-> last.qs, ok |-> TRUE]

\* The Put overwrote a record that was expired and not yet swept.
C8_Witness ==
    ttl > 0 /\ last.op = "Put" /\ last.pre = "expired" /\ last.t = now

\* ------------------------------------------------------------------ C9
\* C9: Put is an idempotent overwrite: from every reachable store, Put(id, qs)
\* followed by Put(id, qs) gives the same two maps as the one Put(id, qs)
\* made at the time of the second call (so at one instant: the second Put
\* changes nothing); and after a repeated Put the record holds qs and the
\* expiration of the second call.
C9_PutIdempotent ==
    /\ \A id \in TestIDs, qs \in QuestionSets, t \in now..MaxTime :
          LET tm1 == PutTestMap(testMap, id, qs)
              ea1 == PutExpiresAt(expiresAt, id, now) IN
          /\ PutTestMap(tm1, id, qs) = PutTestMap(testMap, id, qs)
          /\ PutExpiresAt(ea1, id, t) = PutExpiresAt(expiresAt, id, t)
          /\ PutTestMap(tm1, id, qs) = tm1
          /\ PutExpiresAt(ea1, id, now) = ea1
    /\ (last.op = "Put" /\ last.rep # 0) =>
          /\ testMap[last.id] = last.qs
          /\ IF ttl > 0 THEN expiresAt[last.id] = last.t + ttl
                        ELSE DOMAIN expiresAt = {}

\* Put(id, qs) was called twice in succession on id, the second time later.
C9_Witness ==
    last.op = "Put" /\ last.rep = 2 /\ ttl > 0

\* ----------------------------------------------------------------- C10
\* C10: a call of Get changes neither map (nor the ttl), for an id that is
\* present, absent or expired: an expired record stays in the maps.
C10_GetReadOnly ==
    [][GetStep => (testMap' = testMap /\ expiresAt' = expiresAt /\ ttl' = ttl)]_vars

\* Get missed an expired record, which is still in both maps.
C10_Witness ==
    /\ last.op = "Get" /\ ~last.ok
    /\ last.id \in DOMAIN testMap /\ last.id \in DOMAIN expiresAt

\* --------------------------------------------------- observed requests
\* The request handled last is a /submit whose body was decoded.
SubmitDecoded == req.path = "/submit" /\ req.method = "POST" /\ req.bodyOK

\* ... and it was graded.
Graded == SubmitDecoded /\ resp.status = 200

\* The question set stored for the session the request names.
StoredQs == testMap[req.test_id]

\* The answer a names a question of qs / names one and picks its correct index.
KnownAnswer(a, qs) == \E i \in 1..Len(qs) : qs[i].ID = a.QuestionID

CorrectAnswer(a, qs) ==
    \E i \in 1..Len(qs) : qs[i].ID = a.QuestionID /\ qs[i].Answer = a.Choice

\* The answers of the request that name a question of the stored set, in order.
KnownAnswers ==
    LET IsKnown(a) == KnownAnswer(a, StoredQs) IN SelectSeq(req.answers, IsKnown)

\* By the history, the session id is still live at time t.
SessionLive(id, t) == putAt[id] # None /\ t <= putAt[id] + ttl

\* ----------------------------------------------------------------- C11
\* C11: a session record is immutable once created: no step of the server
\* (a /start, a /submit, a Get, a sweep) changes the question set of a record
\* that exists before and after it, every stored set is the one its Put was
\* given, and a Get that finds the record returns that set.
C11_RecordImmutable ==
    /\ [](/\ \A id \in DOMAIN testMap : testMap[id] = putQs[id]
          /\ (last.op = "Get" /\ last.ok) => last.ret = putQs[last.id])
    /\ [][\A id \in DOMAIN testMap \cap DOMAIN testMap' :
              testMap'[id] = testMap[id]]_vars

\* A /start has just drawn the id of a live session and Put over its record.
C11_Witness ==
    /\ req.path = "/start" /\ resp.status = 200
    /\ last.op = "Put" /\ last.pre = "live"
    /\ testMap[last.id] = baseQuestions

\* ----------------------------------------------------------------- C12
\* C12: in every 200 response of /submit the score is at most the total, for
\* every answer list, repeated question ids included.
C12_ScoreAtMostTotal ==
    Graded => resp.score <= resp.total

\* ----------------------------------------------------------------- C13
\* C13: the score of a graded /submit is the number of submitted answers that
\* name a question of the stored set and pick exactly its correct index.
C13_ScoreCountsCorrect ==
    Graded =>
        resp.score = Cardinality({ i \in 1..Len(req.answers) :
                                      CorrectAnswer(req.answers[i], StoredQs) })

\* Two answers scored, a third one did not.
C13_Witness ==
    Graded /\ resp.score = 2 /\ Len(req.answers) = 3

\* ----------------------------------------------------------------- C14
\* C14: an answer with an unknown question id is dropped: the request is
\* still answered 200, no review item carries an unknown id, and the response
\* is the one the same list without the unknown answers gets.
C14_UnknownIDDropped ==
    (SubmitDecoded /\ resp # NoResp /\ req.test_id \in DOMAIN testMap
       /\ \E i \in 1..Len(req.answers) : ~KnownAnswer(req.answers[i], StoredQs))
    => /\ resp.status = 200
       /\ \A k \in 1..Len(resp.results) :
             \E i \in 1..Len(StoredQs) : StoredQs[i].ID = resp.results[k].QuestionID
       /\ Len(resp.results) = Len(KnownAnswers)
       /\ resp = GradeResponse(StoredQs, KnownAnswers)

\* An unknown answer between two known ones, one of which scored.
C14_Witness ==
    /\ Graded /\ Len(req.answers) = 3
    /\ ~KnownAnswer(req.answers[2], StoredQs)
    /\ resp.score = 1 /\ Len(resp.results) = 2

\* ----------------------------------------------------------------- C15
\* C15: the total of a graded /submit is the number of questions of the
\* stored set, whatever the number of answers.
C15_TotalIsQuestionCount ==
    Graded => resp.total = Len(StoredQs)

\* More answers than questions were submitted.
C15_Witness ==
    Graded /\ Len(req.answers) > Len(StoredQs) /\ resp.total = Len(StoredQs)

\* ----------------------------------------------------------------- C16
\* C16: the results of a graded /submit hold one item per answer with a known
\* question id, in the order of the submitted answers.
C16_ResultsFollowAnswers ==
    Graded =>
        /\ Len(resp.results) = Len(KnownAnswers)
        /\ \A k \in 1..Len(resp.results) :
              /\ resp.results[k].QuestionID = KnownAnswers[k].QuestionID
              /\ resp.results[k].UserChoice = KnownAnswers[k].Choice

\* The answers came in an order that is not the order of the bank.
C16_Witness ==
    /\ Graded /\ Len(resp.results) = 2 /\ Len(req.answers) = 3
    /\ resp.results[1].QuestionID > resp.results[2].QuestionID

\* ----------------------------------------------------------------- C17
\* C17: every answer with a known question id has a review item, whether its
\* choice is right, wrong or no index at all; every item carries the stored
\* question's id and correct index and the submitted choice unchanged.
C17_ReviewItemForEveryKnown ==
    Graded =>
        /\ \A i \in 1..Len(req.answers) :
              KnownAnswer(req.answers[i], StoredQs) =>
                  \E k \in 1..Len(resp.results) :
                      /\ resp.results[k].QuestionID = req.answers[i].QuestionID
                      /\ resp.results[k].UserChoice = req.answers[i].Choice
        /\ \A k \in 1..Len(resp.results) :
              \E i \in 1..Len(StoredQs) :
                  /\ StoredQs[i].ID = resp.results[k].QuestionID
                  /\ StoredQs[i].Answer = resp.results[k].CorrectChoice

\* A right answer, a wrong one and one that is no index were all reviewed.
C17_Witness ==
    /\ Graded /\ Len(resp.results) = 3
    /\ \E k \in 1..3 : resp.results[k].UserChoice = resp.results[k].CorrectChoice
    /\ \E k \in 1..3 : resp.results[k].UserChoice = -1
    /\ \E k \in 1..3 : /\ resp.results[k].UserChoice >= 0
                       /\ resp.results[k].UserChoice # resp.results[k].CorrectChoice

\* ----------------------------------------------------------------- C18
\* C18: grading is idempotent: when a graded /submit is sent again, same
\* test_id and same answers, while the session is live, the response is the
\* same as the first.
C18_GradingIdempotent ==
    [][(Graded /\ again' /\ req' = req /\ SessionLive(req.test_id, now'))
          => resp' = resp]_vars

\* The same /submit was graded twice, the second time later than the /start.
C18_Witness ==
    /\ Graded /\ again /\ resp.score > 0
    /\ last.op = "Get" /\ last.t > putAt[last.id]

\* ----------------------------------------------------------------- C19
\* C19: a /submit for a test_id that was never issued and one for a test_id
\* that has expired (swept or not) get the same response, 400 "invalid or
\* expired test_id", and the store's Get reports both as nil, false.
C19_ExpiredLikeUnknown ==
    (SubmitDecoded /\ last.op = "Get"
       /\ (putAt[req.test_id] = None \/ now > putAt[req.test_id] + ttl))
    => /\ last.id = req.test_id /\ ~last.ok /\ last.ret = NilQuestions
       /\ resp = ErrorResponse(400, "invalid or expired test_id")

\* The test_id has expired and its record is still in the maps.
C19_Witness ==
    /\ SubmitDecoded /\ last.op = "Get" /\ putAt[req.test_id] # None
    /\ now > putAt[req.test_id] + ttl /\ req.test_id \in DOMAIN testMap
    /\ resp.status = 400

\* ----------------------------------------------------------------- C20
\* C20: no response to /start carries a correct index: each question of a
\* 200 /start response has the field ID and no field Answer, and review items
\* (which carry the correct index) are sent only in a 200 response to a
\* /submit whose Get found the session.
C20_StartHidesAnswers ==
    /\ req.path = "/start" =>
          /\ resp.results = << >>
          /\ \A i \in 1..Len(resp.test) : DOMAIN resp.test[i] = {"ID"}
    /\ resp.results # << >> => Graded
    /\ (SubmitDecoded /\ last.op = "Get" /\ ~last.ok) =>
          (resp.status = 400 /\ resp.results = << >>)
    /\ resp.status # 200 => (resp.results = << >> /\ resp.test = << >>)

\* A /start was answered 200 with the public view of the whole bank.
C20_Witness ==
    /\ req.path = "/start" /\ resp.status = 200
    /\ Len(resp.test) = Len(baseQuestions)
    /\ \A i \in 1..Len(resp.test) : resp.test[i].ID = baseQuestions[i].ID

\* ------------------------------------------------------ C21 .. C24 (HTTP)
\* A step in which the server answers a request.
ServeStep == req' # req \/ resp' # resp \/ again' # again

\* The step leaves both maps of the store as they are.
MapsUnchanged == testMap' = testMap /\ expiresAt' = expiresAt

\* ----------------------------------------------------------------- C21
\* C21 as stated: every request to /start whose method is not POST is
\* answered 405 "Method Not Allowed" and creates no session record.
C21_NonPostStartIs405 ==
    [][(ServeStep /\ req'.path = "/start" /\ req'.method # "POST")
         => (resp' = ErrorResponse(405, "Method Not Allowed") /\ MapsUnchanged)]_vars

\* C21 amended: a request to /start whose method is neither POST nor OPTIONS
\* is answered 405 "Method Not Allowed"; an OPTIONS request to /start is
\* answered 204 by the CORS wrapper; neither creates a session record.
C21_NonPostNonOptionsStartIs405 ==
    [][(ServeStep /\ req'.path = "/start" /\ req'.method # "POST")
         => /\ resp' = IF req'.method = "OPTIONS"
                       THEN NoContent
                       ELSE ErrorResponse(405, "Method Not Allowed")
            /\ MapsUnchanged]_vars

\* A GET /start was answered 405 while a session was in the store.
C21_Witness ==
    /\ req = StartRequest("GET", TRUE) /\ resp.status = 405
    /\ DOMAIN testMap # {}

\* ----------------------------------------------------------------- C22
\* C22: a POST /start whose body does not decode is answered 400 "invalid
\* json" and makes no store call at all; and whenever a request to /start is
\* answered with anything but 200 the store is as before, and a Put happens
\* only in a step that answers a /start with 200.
C22_InvalidJSONLeavesStore ==
    [][/\ (ServeStep /\ req'.path = "/start" /\ req'.method = "POST" /\ ~req'.bodyOK)
          => (resp' = ErrorResponse(400, "invalid json") /\ UNCHANGED storeVars)
       /\ (ServeStep /\ req'.path = "/start" /\ resp'.status # 200)
          => UNCHANGED storeVars
       /\ (last' # last /\ last'.op = "Put")
          => (req'.path = "/start" /\ resp'.status = 200
              /\ resp'.test_id = last'.id)]_vars

\* An undecodable POST /start was answered 400 while a session was stored.
C22_Witness ==
    /\ req = StartRequest("POST", FALSE) /\ resp.status = 400
    /\ resp.error = "invalid json" /\ DOMAIN testMap # {}

\* ----------------------------------------------------------------- C23
\* C23: an OPTIONS request, whatever its path, is answered 204 with no body
\* by the CORS wrapper and reaches no handler: the step makes no store call
\* (no Put, no Get) and leaves the store as it is.
C23_OptionsAnsweredByCORS ==
    [][(ServeStep /\ req'.method = "OPTIONS")
         => (resp' = NoContent /\ UNCHANGED storeVars)]_vars

\* An OPTIONS request to /submit or to a path with no handler was answered
\* 204 right after a /start had stored a session.
C23_Witness ==
    /\ req.method = "OPTIONS" /\ req.path \in {"/submit", "/other"}
    /\ resp = NoContent /\ DOMAIN testMap # {} /\ last.op = "Put"

\* ----------------------------------------------------------------- C24
\* C24: once a /start has returned 200 with test_id X at time T, a /submit
\* with test_id X handled at a time before T + 30 minutes is answered 200
\* with total = the size of the question bank, whatever /start and /submit
\* requests and sweeps came in between.
C24_SubmitWithinTTL ==
    (SubmitDecoded /\ last.op = "Get" /\ putAt[req.test_id] # None
       /\ now < putAt[req.test_id] + StoreTTL)
    => /\ resp.status = 200 /\ resp.success
       /\ resp.total = Len(baseQuestions)

\* The session was graded after the clock moved, after a later /start created
\* another session, and while that other session is still stored.
C24_Witness ==
    /\ SubmitDecoded /\ last.op = "Get" /\ resp.status = 200
    /\ now > putAt[req.test_id]
    /\ \E id \in TestIDs : id # req.test_id /\ putAt[id] > putAt[req.test_id]
                           /\ id \in DOMAIN testMap

\* ----------------------------------------------------------------- C25
\* The two maps after Put(a, qa) and then Put(b, qb), both at time t.
PutPut(tm, ea, a, qa, b, qb, t) ==
    << PutTestMap(PutTestMap(tm, a, qa), b, qb),
       PutExpiresAt(PutExpiresAt(ea, a, t), b, t) >>

\* C25: Put(a, qs) leaves every record b # a as it is (whether it is stored,
\* its question set, its expiration, and so what Get(b) returns, at the time
\* of the Put and at the latest time of the clock),
\* and from every state Put(a, ..) then Put(b, ..) at one instant gives the
\* same maps as Put(b, ..) then Put(a, ..), for every pair a # b (each pair
\* is taken once, as a < b; the two orders are compared on the maps a Get(1)
\* has just read, and a Get(1) can follow every state and changes no map, so
\* these are all the maps and times the store reaches).
C25_KeysIndependent ==
    /\ [][(last' # last /\ last'.op = "Put")
            => \A b \in TestIDs \ {last'.id} :
                 /\ (b \in DOMAIN testMap') = (b \in DOMAIN testMap)
                 /\ (b \in DOMAIN expiresAt') = (b \in DOMAIN expiresAt)
                 /\ b \in DOMAIN testMap => testMap'[b] = testMap[b]
                 /\ b \in DOMAIN expiresAt => expiresAt'[b] = expiresAt[b]
                 /\ \A t \in {now, MaxTime} :
                      GetResult(testMap', expiresAt', b, t)
                        = GetResult(testMap, expiresAt, b, t)]_vars
    /\ []((last.op = "Get" /\ last.id = 1) =>
            \A a, b \in TestIDs : \A qa, qb \in QuestionSets :
               a < b => PutPut(testMap, expiresAt, a, qa, b, qb, now)
                          = PutPut(testMap, expiresAt, b, qb, a, qa, now))

\* A Put has just returned while another record, stored at an earlier time
\* with another question set, is in the store.
C25_Witness ==
    /\ last.op = "Put" /\ ttl > 0
    /\ \E b \in DOMAIN expiresAt :
          /\ b # last.id /\ b \in DOMAIN testMap
          /\ expiresAt[b] # expiresAt[last.id]
          /\ testMap[b] # testMap[last.id]

\* ----------------------------------------------------------------- C26
\* The 36 symbols a-z and 0-9.
Alphabet36 ==
    { "a", "b", "c", "d", "e", "f", "g", "h", "i", "j", "k", "l", "m",
      "n", "o", "p", "q", "r", "s", "t", "u", "v", "w", "x", "y", "z",
      "0", "1", "2", "3", "4", "5", "6", "7", "8", "9" }

\* C26: every identifier the generator returns is "test-" followed by
\* exactly 10 characters, each one of the 36 symbols a-z, 0-9; the generator
\* takes no step that reads or writes the store (the store and the lock stay
\* as they were constructed while it runs).
C26_IDFormat ==
    /\ Cardinality(Alphabet36) = 36
    /\ idOut # << >> =>
          /\ Len(idOut) = 5 + 10
          /\ SubSeq(idOut, 1, 5) = << "t", "e", "s", "t", "-" >>
          /\ \A i \in 6..15 : idOut[i] \in Alphabet36
    /\ testMap = EmptyMap /\ expiresAt = EmptyMap /\ last = NoCall
    /\ mu = [w |-> None, r |-> {}]

\* The generator returned test-z999999999.
C26_Witness ==
    idOut = << "t", "e", "s", "t", "-", "z", "9", "9", "9", "9", "9", "9", "9", "9", "9" >>

\* ------------------------------------------------ C27 .. C30 (the lock)
\* Goroutine p is inside the critical section of a Put or a CleanupExpired.
WriterInside(p) == call[p].at \in {"L82", "L83", "L110", "L112", "L113"}

\* Goroutine p is inside the critical section of a Get.
ReaderInside(p) == call[p].at \in {"L91", "L95"}

\* ----------------------------------------------------------------- C27
\* C27: while a Put or a Sweep is inside its critical section no other Put,
\* Sweep or Get is inside its own (Gets may share: see the witness).
C27_LockDiscipline ==
    \A p, q \in Goroutines :
        (p # q /\ WriterInside(p)) => (~WriterInside(q) /\ ~ReaderInside(q))

\* Two Gets are inside their critical sections at the same time, while the
\* Sweep waits for the lock.
C27_Witness ==
    /\ Cardinality({ p \in Goroutines : ReaderInside(p) }) >= 2
    /\ call[Sweeper].at \in {"Lock", "Drain"}

\* ----------------------------------------------------------------- C28
\* C28: whatever Put, Get and Sweep calls interleave, a Get inside its
\* critical section reads the maps exactly as the calls that have returned
\* left them, and returns what Get returns on those maps: a record has its
\* question set and its expiration from the same Put (with ttl > 0 never a
\* question set without an expiration), and no record is in one map and
\* already deleted from the other.
C28_GetSeesWholeOperations ==
    \A p \in Goroutines :
        ReaderInside(p) =>
            /\ testMap = committed.testMap
            /\ expiresAt = committed.expiresAt
            /\ ttl > 0 => DOMAIN testMap = DOMAIN expiresAt
            /\ call[p].at = "L95" =>
                  /\ call[p].id \in DOMAIN committed.testMap
                  /\ call[p].qs = committed.testMap[call[p].id]
                  /\ GetL95Result(p) = GetResult(committed.testMap,
                                                 committed.expiresAt, call[p].id, now)

\* A Get has read the record of a key while a Put of that key, called at a
\* later time than the stored record's Put, and the Sweep are waiting.
C28_Witness ==
    \E p, q \in Handlers :
        /\ call[p].at = "L95" /\ call[q].op = "Put" /\ call[q].id = call[p].id
        /\ call[q].at \in {"Lock", "Drain"}
        /\ call[Sweeper].at \in {"Lock", "Drain"}
        /\ now + ttl > expiresAt[call[p].id]

\* ----------------------------------------------------------------- C29
\* The record of id is stored and its expiration has passed.
StoredExpired(id) ==
    /\ id \in DOMAIN testMap /\ id \in DOMAIN expiresAt
    /\ After(now, expiresAt[id])

\* C29: with ttl > 0 and the ticker firing again and again, a record that
\* has expired is eventually gone from both maps, unless a Put has stored
\* the id again (which gives it an expiration that has not passed).
C29_ExpiredEventuallySwept ==
    \A id \in TestIDs :
        (ttl > 0 /\ StoredExpired(id))
          ~> \/ (id \notin DOMAIN testMap /\ id \notin DOMAIN expiresAt)
             \/ (id \in DOMAIN expiresAt /\ ~After(now, expiresAt[id]))

\* A sweep has just returned after the session of some id had expired, and
\* the id is in neither map, while a session stored later is kept.
C29_Witness ==
    /\ ttl > 0 /\ last.op = "Sweep"
    /\ \E id \in TestIDs :
          /\ putAt[id] # None /\ now > putAt[id] + ttl
          /\ id \notin DOMAIN testMap /\ id \notin DOMAIN expiresAt
    /\ DOMAIN testMap # {}

\* ----------------------------------------------------------------- C30
\* Goroutine p is in a store call that has not returned.
InCall(p) == call[p].at # "idle"

\* C30: a call holds the lock exactly from its one Lock / RLock to its
\* return (nothing is held by a goroutine that is in no call or still
\* queueing), and under fair scheduling every Put, Get and Sweep that was
\* called returns: no set of concurrent calls blocks for ever.
C30_CallsTerminate ==
    /\ [](\A p \in Goroutines :
            /\ (mu.w = p) = (call[p].at = "Drain" \/ WriterInside(p))
            /\ (p \in mu.r) = ReaderInside(p))
    /\ \A p \in Goroutines : InCall(p) ~> ~InCall(p)

\* A Put or Sweep is held up by a Get that is inside, and another call queues
\* behind it.
C30_Witness ==
    \E p, q \in Goroutines :
        /\ call[p].at = "Drain" /\ mu.r # {}
        /\ p # q /\ call[q].at \in {"Lock", "RLock"}

\* ----------------------------------------------------------------- C31
\* C31: CleanupExpired takes its time before it takes the lock, and still,
\* whatever ran in between (a Put included), a record it deletes is one that
\* a Get at the moment of the deletion would not have found: in every state,
\* from the one right after the deletion on, a record that was Put and is no
\* longer stored has its expiration behind the clock; and the time a sweep
\* holds while it waits for the lock is never ahead of the clock.
C31_SweepDeletesOnlyDead ==
    /\ \A id \in TestIDs :
          (putAt[id] # None /\ id \notin DOMAIN testMap)
            => (ttl > 0 /\ After(now, putAt[id] + ttl))
    /\ cleanupPc = "lock" => cleanupNow <= now

\* A sweep has returned that took its time before a Put that came in ahead of
\* its lock: the record of that Put is kept, an expired one is deleted.
C31_Witness ==
    /\ last.op = "Sweep" /\ last.t # None
    /\ \E id \in DOMAIN testMap : putAt[id] > last.t
    /\ \E id \in TestIDs : putAt[id] # None /\ id \notin DOMAIN testMap

\* ----------------------------------------------------------------- C32
\* C32: between any two store operations, a store with ttl > 0 has the same
\* keys in testMap and in expiresAt (no record without an expiration, no
\* expiration without a record), and a store with ttl <= 0 has an empty
\* expiresAt.
C32_SameKeySets ==
    /\ ttl > 0 => DOMAIN testMap = DOMAIN expiresAt
    /\ ttl <= 0 => expiresAt = EmptyMap

\* With ttl > 0 a sweep has just deleted one record from both maps and kept
\* another.
C32_Witness ==
    /\ ttl > 0 /\ last.op = "Sweep" /\ last.t # None
    /\ Cardinality(DOMAIN testMap) = 1 /\ DOMAIN expiresAt = DOMAIN testMap
    /\ \E id \in TestIDs \ DOMAIN expiresAt : putAt[id] # None

\* ----------------------------------------------------------------- C33
\* The step is a Put(id, ...).
PutStep(id) ==
    /\ last'.op = "Put" /\ last'.id = id
    /\ cleanupPc' = cleanupPc /\ now' = now

\* C33: a Get returns what GetResult gives on the maps and the clock, and
\* once GetResult gives found = false for an id it gives found = false after
\* every step that is not a Put of that id: a tick of the clock, a Get, a Put
\* of another id, either step of a sweep. So after a Get(id) has missed,
\* every later Get(id) misses until the id is Put again.
C33_ExpiryMonotonic ==
    [][ /\ GetStep => last'.ok = GetResult(testMap, expiresAt, last'.id, now).ok
        /\ \A id \in TestIDs :
              (~GetResult(testMap, expiresAt, id, now).ok /\ ~PutStep(id))
                => ~GetResult(testMap', expiresAt', id, now').ok ]_vars

\* A Get misses a session that has been past its expiration for more than
\* one instant and has been swept in the meantime.
C33_Witness ==
    /\ last.op = "Get" /\ ~last.ok /\ putAt[last.id] # None
    /\ ttl > 0 /\ last.t >= putAt[last.id] + ttl + 2
    /\ last.id \notin DOMAIN testMap

\* ----------------------------------------------------------------- C34
\* C34: a request to /submit, whatever its answer (200, 400 or 405), leaves
\* both maps of the store and its ttl as they were: the record is not
\* consumed and its expiration is not moved. A decodable POST /submit for a
\* session that has not expired is answered 200 every time it is sent, and
\* one for a session that has expired is answered 400.
C34_SubmitLeavesStore ==
    [][(ServeStep /\ req'.path = "/submit")
          => /\ MapsUnchanged /\ ttl' = ttl
             /\ putAt' = putAt /\ putQs' = putQs
             /\ (req'.method = "POST" /\ req'.bodyOK /\ putAt[req'.test_id] # None)
                  => (resp'.status = 200 <=> SessionLive(req'.test_id, now'))
      ]_vars

\* The same /submit has been graded twice, the second time at the last
\* instant of the session, and the expiration is the one its /start gave it.
C34_Witness ==
    /\ req.path = "/submit" /\ again /\ resp.status = 200
    /\ last.op = "Get" /\ now = putAt[req.test_id] + StoreTTL
    /\ expiresAt[req.test_id] = now

\* ----------------------------------------------------------------- C35
\* The answers of the request name pairwise distinct question ids.
DistinctQuestionIDs ==
    \A i, j \in 1..Len(req.answers) :
        i # j => req.answers[i].QuestionID # req.answers[j].QuestionID

\* C35: when the answers of a graded /submit name pairwise distinct question
\* ids, the number of review items and the score are both at most the total,
\* and the score is at most the number of review items.
C35_DistinctIDsBounded ==
    (Graded /\ DistinctQuestionIDs)
    => /\ Len(resp.results) <= resp.total
       /\ resp.score <= resp.total
       /\ resp.score <= Len(resp.results)

\* Answers with distinct ids, one of them unknown to the stored set, reach
\* the bound: as many review items as questions, all of them right.
C35_Witness ==
    /\ Graded /\ DistinctQuestionIDs /\ Len(req.answers) >= 2
    /\ \E i \in 1..Len(req.answers) : ~KnownAnswer(req.answers[i], StoredQs)
    /\ Len(resp.results) = resp.total /\ resp.score = resp.total

\* ----------------------------------------------------------------- C36
\* The request is a POST to /start whose body decodes.
StartDecoded == req.path = "/start" /\ req.method = "POST" /\ req.bodyOK

\* C36: every decodable POST /start is answered 200 with a test_id, also
\* when randomTestID returns an id that is already stored; the Put of such a
\* /start leaves one record under the id, holding the question bank, with
\* the expiration now + ttl, so the earlier session is neither refused nor
\* removed and the two clients share the record.
C36_CollidingStartOverwrites ==
    /\ StartDecoded
         => (resp.status = 200 /\ resp.success /\ resp.test_id \in TestIDs)
    /\ (StartDecoded /\ last.op = "Put" /\ last.pre # "absent")
         => /\ resp.status = 200 /\ resp.test_id = last.id
            /\ last.id \in DOMAIN testMap
            /\ testMap[last.id] = baseQuestions
            /\ expiresAt[last.id] = last.t + StoreTTL
            /\ putAt[last.id] = last.t

\* A /start has drawn the id of a session created at an earlier time that
\* had not expired, while the other id was free.
C36_Witness ==
    /\ req.path = "/start" /\ resp.status = 200
    /\ last.op = "Put" /\ last.pre = "live" /\ last.rep = 2
    /\ resp.test_id = last.id /\ expiresAt[last.id] = now + StoreTTL
    /\ DOMAIN testMap = {last.id}

\* ----------------------------------------------------------------- C37
\* C37: in a store constructed with a negative ttl records never expire: Put
\* records no expiration, every record that was Put stays in the store with
\* the question set of its latest Put, every Get of it returns found = true
\* with that set at every later time, and the sweep, which does not return
\* early (it takes its time and the lock), removes nothing.
C37_NegativeTTLNeverExpires ==
    ttl < 0 =>
        /\ expiresAt = EmptyMap
        /\ \A id \in TestIDs :
              putAt[id] # None
                => /\ id \in DOMAIN testMap /\ testMap[id] = putQs[id]
                   /\ \A t \in Times :
                         GetResult(testMap, expiresAt, id, t)
                             = [qs |-> putQs[id], ok |-> TRUE]
        /\ GotAfterPut => (last.ok /\ last.ret = putQs[last.id])
        /\ last.op = "Sweep" => last.t # None

\* With a negative ttl a sweep has run its loop, after every id was Put at
\* an earlier time, and every record is still stored.
C37_Witness ==
    /\ ttl < 0 /\ last.op = "Sweep" /\ last.t # None
    /\ DOMAIN testMap = TestIDs
    /\ \A id \in TestIDs : putAt[id] # None /\ putAt[id] < last.t

\* ------------------------------------------------------------- typing
TypeOK ==
    /\ DOMAIN testMap \subseteq TestIDs
    /\ DOMAIN expiresAt \subseteq TestIDs
    /\ \A id \in DOMAIN testMap : testMap[id] \in QuestionSets
    /\ \A id \in DOMAIN expiresAt : expiresAt[id] \in 0..(MaxTime + MaxTTL + StoreTTL)
    /\ ttl \in TTLs \cup {StoreTTL}
    /\ req.path \in {"none", "/start", "/submit", "/other"}
    /\ resp.status \in {0, 200, 204, 400, 404, 405}
    /\ again \in BOOLEAN
    /\ now \in Times
    /\ cleanupPc \in {"idle", "lock"}
    /\ cleanupNow \in Times
    /\ idI \in 0..IDLength /\ Len(idB) = IDLength
    /\ mu.w \in Goroutines \cup {None} /\ mu.r \subseteq Handlers
    /\ \A p \in Goroutines :
          call[p].at \in {"idle", "Lock", "Drain", "RLock", "L82", "L83",
                          "L91", "L95", "L110", "L112", "L113"}
    /\ DOMAIN committed.testMap \subseteq TestIDs

====
